---- MODULE Spec2Model ----
(***************************************************************************)
(* Ownership and lifetime model of the libvlcpp wrappers Instance, Media   *)
(* and MediaDiscoverer: shared-ownership handles around native pointers,   *)
(* the construction paths, the cached event manager, the log callback      *)
(* registration and the bulk queries.                                      *)
(***************************************************************************)
EXTENDS Integers, Sequences, FiniteSets, Bags, TLC

\* ------------------------------------------------------------------ bounds
MaxHandles == 2   \* wrapper objects alive at the same time
MaxCb == 2        \* distinct log callbacks the application registers
MaxLibThreads == 2 \* library threads that deliver log messages
MaxList == 3      \* elements of a native list or array
MaxElem == 3      \* distinct element descriptions
MaxRacers == 2    \* threads calling eventManager() on one wrapper
MaxCalls == 2     \* eventManager() calls each of them makes

Null == 0         \* the null native pointer
NoChild == 0      \* an unset std::shared_ptr<...EventManager>
NullRef == -1     \* the reference obtained by dereferencing an unset slot

VARIABLES
    groups,        \* the wrappers, grouped by the m_obj they share (a bag)
    objs,          \* native objects: pointer -> record
    nullReleases,  \* release calls made with a null pointer
    crashed,       \* the process aborted on an unset-slot dereference
    lastOp,        \* the operation that produced this state
    logCb,         \* the log callback registered with the instance (0: none)
    running,       \* library thread -> the callback it is inside (0: none)
    app,           \* where the application thread is
    lastLog,       \* the last registration call that returned, and whether
                   \* an invocation was in flight when it was made
    bulk,          \* the last bulk query: its input and what it did
    exitH,         \* the exit handler registered, and the one being run
    race,          \* threads inside eventManager() on one Media wrapper
    ctor           \* a Media(ptr, incrementRefCount) under construction

ownVars == <<groups, objs, nullReleases, crashed, lastOp>>
logVars == <<logCb, running, app, lastLog>>
auxVars == <<exitH, race, ctor>>
vars == <<groups, objs, nullReleases, crashed, lastOp, logCb, running, app,
          lastLog, bulk, exitH, race, ctor>>

\* The release function the native library pairs with each object kind.
ReleaseFnOf(kind) ==
    CASE kind = "instance" -> "libvlc_release"
      [] kind = "media" -> "libvlc_media_release"
      [] kind = "discoverer" -> "libvlc_media_discoverer_release"
      [] OTHER -> "none"

\* The wrapper class each construction path belongs to.
KindOf(path) ==
    CASE path \in {"Instance", "InstanceDefault", "instance"} -> "instance"
      [] path \in {"Discoverer", "discoverer"} -> "discoverer"
      [] OTHER -> "media"

\* enum Media::FromType, plus a value outside the enumeration
FromPath == 0
FromLocation == 1
AsNode == 2
BadType == AsNode + 1
FromTypes == {FromPath, FromLocation, AsNode}
Types == FromTypes \cup {BadType}

\* The native create function Media(instance, mrl, type) selects.
CreateFn(type) ==
    CASE type = FromLocation -> "libvlc_media_new_location"
      [] type = FromPath -> "libvlc_media_new_path"
      [] type = AsNode -> "libvlc_media_new_as_node"
      [] OTHER -> "none"

\* ------------------------------------------------- the native library
\* A native object: its kind, its reference count, the references a native
\* container holds on it, and its contents; over records a release call made
\* on memory that holds no object (any more).
NewObj(kind, content) ==
    [kind |-> kind, refs |-> 1, held |-> 0, content |-> content,
     over |-> FALSE]

\* Memory that holds no object: never allocated, or freed by the release that
\* took the count to zero.
NoObj ==
    [kind |-> "none", refs |-> 0, held |-> 0, content |-> 0, over |-> FALSE]

\* A media list keeps one reference on each of its items (ItemMedia) and on
\* the media it belongs to (ListMedia).
ItemMedia == 1
ListMedia == 2
Held(content) == [NewObj("media", content) EXCEPT !.held = 1]

\* Pointers: every wrapper alive may own one object, beside the two above.
Ptrs == 1..(MaxHandles + 2)

libvlc_media_retain(os, p) == [os EXCEPT ![p].refs = @ + 1]

\* A release decrements the count and frees the object when it reaches zero;
\* one on memory that holds no object is a use after free.
NativeRelease(os, p) ==
    IF os[p].refs = 0 THEN [os EXCEPT ![p].over = TRUE]
    ELSE IF os[p].refs = 1 THEN [os EXCEPT ![p] = NoObj]
    ELSE [os EXCEPT ![p].refs = @ - 1]

\* ------------------------------------------------ Internal<T> (m_obj)
\* m_obj is a std::shared_ptr<T>: either it has no control block (own = FALSE)
\* or it owns ptr together with the release function rel.
EmptyShared == [own |-> FALSE, ptr |-> Null, rel |-> "none"]

\* Internal{ ptr, releaser }: a null pointer gives an empty handle.
Internal(ptr, rel) ==
    IF ptr = Null THEN EmptyShared
    ELSE [own |-> TRUE, ptr |-> ptr, rel |-> rel]

\* Internal{ releaser }: no pointer yet.
InternalRel(rel) == EmptyShared

\* m_obj.reset( ptr, releaser ): a control block around ptr, whatever ptr is.
SharedReset(ptr, rel) == [own |-> TRUE, ptr |-> ptr, rel |-> rel]

\* Internal::isValid()
isValid(m) == m.ptr # Null

\* ------------------------------------------------------- constructors
\* A constructor's outcome: whether it threw, the m_obj it built, and whether
\* it called libvlc_media_retain on the stored pointer.
Built(m) == [thrown |-> FALSE, m_obj |-> m, retain |-> FALSE]

Instance_ctor_mediaRelease(ret) == Built(Internal(ret, "libvlc_media_release"))

\* Instance(int argc, const char *const * argv); ret is what libvlc_new returned.
Instance_ctor(ret) == Built(Internal(ret, "libvlc_release"))

\* Instance() = default and Media() = default.
Default_ctor == Built(EmptyShared)

Media_ctor_unchecked(type, ret) ==
    Built(SharedReset(IF CreateFn(type) # "none" THEN ret ELSE Null,
                      "libvlc_media_release"))

\* Media(Instance&, const std::string&, FromType); ret is what the selected
\* native create function returned (no function is called for other types).
Media_ctor(type, ret) ==
    LET ptr == IF CreateFn(type) # "none" THEN ret ELSE Null
    IN  IF ptr = Null
        THEN [thrown |-> TRUE, m_obj |-> InternalRel("libvlc_media_release"),
              retain |-> FALSE]
        ELSE Built(SharedReset(ptr, "libvlc_media_release"))

Media_fd_ctor_throwing(ret) ==
    IF ret = Null
    THEN [thrown |-> TRUE, m_obj |-> InternalRel("libvlc_media_release"),
          retain |-> FALSE]
    ELSE Built(Internal(ret, "libvlc_media_release"))

\* Media(Instance&, int fd); ret is what libvlc_media_new_fd returned.
Media_fd_ctor(ret) == Built(Internal(ret, "libvlc_media_release"))

Media_list_ctor_reset(ret) == Built(SharedReset(ret, "libvlc_media_release"))

\* Media(MediaList&); ret is what libvlc_media_list_media returned.
Media_list_ctor(ret) == Built(Internal(ret, "libvlc_media_release"))

\* Media::retain(): calls libvlc_media_retain iff isValid().
retain(m) == isValid(m)

Media_ptr_ctor_noRetain(ptr, incrementRefCount) ==
    Built(Internal(ptr, "libvlc_media_release"))

Media_ptr_ctor_alwaysRetain(ptr, incrementRefCount) ==
    LET m == Internal(ptr, "libvlc_media_release")
    IN  [thrown |-> FALSE, m_obj |-> m, retain |-> retain(m)]

\* Media(InternalPtr ptr, bool incrementRefCount)
Media_ptr_ctor(ptr, incrementRefCount) ==
    LET m == Internal(ptr, "libvlc_media_release")
    IN  [thrown |-> FALSE, m_obj |-> m,
         retain |-> incrementRefCount /\ retain(m)]

\* MediaDiscoverer(Instance&, const std::string&); ret is what
\* libvlc_media_discoverer_new(_from_name) returned.
MediaDiscoverer_ctor(ret) ==
    Built(Internal(ret, "libvlc_media_discoverer_release"))


\* ---------------------------------------------------------- the wrappers
\* A wrapper object: its m_eventManager slot, the reference its first
\* eventManager() call returned (0: no call yet), and whether it was made by
\* the copy constructor.  Wrappers sharing one m_obj form a group; the
\* wrappers without a control block are kept together per construction path.
NewWrapper == [em |-> NoChild, first |-> 0, copy |-> FALSE]

One(e) == SetToBag({e})
Replace(B, old, new) == (B (-) One(old)) (+) One(new)

\* A group records the wrapper class and, for wrappers without a control
\* block, the construction path they came from.
NewGroup(path, m) ==
    [path |-> IF m.own THEN KindOf(path) ELSE path, m |-> m,
     ws |-> One(NewWrapper)]

AddGroup(B, G) ==
    IF G.m.own \/ ~\E E \in DOMAIN B : ~E.m.own /\ E.path = G.path
    THEN B (+) One(G)
    ELSE LET E == CHOOSE E \in DOMAIN B : ~E.m.own /\ E.path = G.path
         IN  Replace(B, E, [E EXCEPT !.ws = @ (+) G.ws])

RECURSIVE CountHandles(_)
CountHandles(B) ==
    IF DOMAIN B = {} THEN 0
    ELSE LET G == CHOOSE x \in DOMAIN B : TRUE
         IN  B[G] * BagCardinality(G.ws)
             + CountHandles([x \in DOMAIN B \ {G} |-> B[x]])

NHandles == CountHandles(groups)

RECURSIVE CountGroups(_, _)
CountGroups(B, p) ==
    IF DOMAIN B = {} THEN 0
    ELSE LET G == CHOOSE x \in DOMAIN B : TRUE
         IN  (IF G.m.own /\ G.m.ptr = p THEN B[G] ELSE 0)
             + CountGroups([x \in DOMAIN B \ {G} |-> B[x]], p)

\* The ownership groups alive around pointer p.
LiveGroupsOn(p) == CountGroups(groups, p)

LastBase(op) ==
    [op |-> op, path |-> "none", ptr |-> Null, arg |-> 0, thrown |-> FALSE,
     valid |-> FALSE, res |-> 0, x |-> 0, y |-> 0, acc |-> 0]

Bump(n) == IF n <= MaxHandles THEN n + 1 ELSE n

\* The release function rel called on pointer p.
CallRelease(os, nr, rel, p) ==
    [os |-> IF p = Null THEN os ELSE NativeRelease(os, p),
     nr |-> IF p = Null THEN Bump(nr) ELSE nr]

\* The state after a constructor: c is its outcome and os the native objects
\* after the native call it made.  A constructor that throws destroys the
\* m_obj of its base subobject; one that returns leaves a new wrapper.
Construct(op, c, os, ptr, arg) ==
    LET m == c.m_obj
        os1 == IF c.retain THEN libvlc_media_retain(os, m.ptr) ELSE os
    IN  /\ ~crashed
        /\ IF c.thrown
           THEN LET r == IF m.own
                         THEN CallRelease(os1, nullReleases, m.rel, m.ptr)
                         ELSE [os |-> os1, nr |-> nullReleases]
                IN  /\ groups' = groups
                    /\ objs' = r.os
                    /\ nullReleases' = r.nr
                    /\ lastOp' = [LastBase(op) EXCEPT !.path = op,
                           !.ptr = ptr, !.arg = arg, !.thrown = TRUE]
           ELSE /\ NHandles < MaxHandles
                /\ groups' = AddGroup(groups, NewGroup(op, m))
                /\ objs' = os1
                /\ nullReleases' = nullReleases
                /\ lastOp' = [LastBase(op) EXCEPT !.path = op,
                       !.ptr = ptr, !.arg = arg, !.valid = isValid(m),
                       !.acc = IF c.retain THEN 1 ELSE 0]
        /\ UNCHANGED <<auxVars, crashed, logVars, bulk>>

\* What a native create function returns: null, or a fresh object at an
\* address no live object occupies.
Unused == {p \in Ptrs : objs[p].refs = 0 /\ LiveGroupsOn(p) = 0}
Fresh == CHOOSE p \in Unused : \A q \in Unused : p <= q
CreateResults == {Null} \cup (IF Unused # {} THEN {Fresh} ELSE {})
AfterCreate(ret, kind, content) ==
    IF ret = Null THEN objs ELSE [objs EXCEPT ![ret] = NewObj(kind, content)]

InstanceNew ==
    \E ret \in CreateResults :
        Construct("Instance", Instance_ctor(ret),
                  AfterCreate(ret, "instance", 0), ret, 0)

InstanceDefault == Construct("InstanceDefault", Default_ctor, objs, Null, 0)

MediaDefault == Construct("MediaDefault", Default_ctor, objs, Null, 0)

MediaNew ==
    \E type \in Types :
        \E ret \in IF CreateFn(type) # "none" THEN CreateResults ELSE {Null} :
            Construct("MediaNew", Media_ctor(type, ret),
                      AfterCreate(ret, "media", 1), ret, type)

MediaFd ==
    \E ret \in CreateResults :
        Construct("MediaFd", Media_fd_ctor(ret),
                  AfterCreate(ret, "media", 2), ret, 0)

\* libvlc_media_list_media returns the list's media with its reference count
\* incremented, or null.
MediaFromList ==
    \E ret \in {Null, ListMedia} :
        Construct("MediaList", Media_list_ctor(ret),
                  IF ret = Null THEN objs
                  ELSE [objs EXCEPT ![ret].refs = @ + 1],
                  ret, 0)

\* Media(ptr, true) on a pointer borrowed from the list, which keeps its own
\* reference on the item, or on null.
MediaFromPtr ==
    \E ptr \in {Null, ItemMedia} :
        Construct("MediaPtrInc", Media_ptr_ctor(ptr, TRUE), objs, ptr, 1)

\* Media::duplicate(): libvlc_media_duplicate returns a fresh copy of the
\* media (or null) and Media(obj, false) adopts it.
duplicate(G) ==
    /\ KindOf(G.path) = "media" /\ isValid(G.m)
    /\ \E ret \in CreateResults :
        Construct("MediaDup", Media_ptr_ctor(ret, FALSE),
                  AfterCreate(ret, "media", objs[G.m.ptr].content),
                  ret, G.m.ptr)

MediaDiscovererNew ==
    \E ret \in CreateResults :
        Construct("Discoverer", MediaDiscoverer_ctor(ret),
                  AfterCreate(ret, "discoverer", 0), ret, 0)

B2N(b) == IF b THEN 1 ELSE 0

\* ------------------------- Media(ptr, incrementRefCount), step by step
\* The constructor in its two parts: the member initialiser
\* Internal{ ptr, libvlc_media_release }, which builds m_obj, and then the
\* body, which calls retain() when incrementRefCount is set.  ctor.pc is
\* "body" between the two.
CtorInit == [pc |-> "none", m |-> EmptyShared, inc |-> FALSE]

MediaPtrInit(ptr, incrementRefCount) ==
    /\ ~crashed
    /\ ctor.pc = "none"
    /\ NHandles < MaxHandles
    /\ ctor' = [pc |-> "body", m |-> Internal(ptr, "libvlc_media_release"),
                inc |-> incrementRefCount]
    /\ UNCHANGED <<exitH, race, ownVars, logVars, bulk>>

MediaPtrBody ==
    /\ ~crashed
    /\ ctor.pc = "body"
    /\ LET called == ctor.inc /\ retain(ctor.m)
       IN  /\ objs' = IF called THEN libvlc_media_retain(objs, ctor.m.ptr)
                      ELSE objs
           /\ groups' = AddGroup(groups, NewGroup("MediaPtrInc", ctor.m))
           /\ lastOp' = [LastBase("MediaPtrInc") EXCEPT !.path = "MediaPtrInc",
                  !.ptr = ctor.m.ptr, !.arg = B2N(ctor.inc),
                  !.valid = isValid(ctor.m), !.acc = B2N(called)]
    /\ ctor' = CtorInit
    /\ UNCHANGED <<exitH, race, nullReleases, crashed, logVars, bulk>>

\* ------------------------------------------------- copies and destruction
\* The implicit copy constructor: m_obj and m_eventManager are both copied,
\* so the copy joins the ownership group and shares the cached child.
Copy(G, W) ==
    /\ ~crashed
    /\ NHandles < MaxHandles
    /\ groups' = Replace(groups, G,
           [G EXCEPT !.ws = @ (+) One([W EXCEPT !.first = 0, !.copy = TRUE])])
    /\ lastOp' = [LastBase("copy") EXCEPT !.path = G.path, !.ptr = G.m.ptr,
                      !.valid = isValid(G.m), !.x = B2N(isValid(G.m))]
    /\ UNCHANGED <<auxVars, objs, nullReleases, crashed, logVars, bulk>>

\* The destructor: the wrapper leaves its ownership group, and the last member
\* to leave calls the group's release function on the group's pointer.
Destroy(G, W) ==
    /\ ~crashed
    /\ LET ws == G.ws (-) One(W)
           last == ws = EmptyBag
           r == IF last /\ G.m.own
                THEN CallRelease(objs, nullReleases, G.m.rel, G.m.ptr)
                ELSE [os |-> objs, nr |-> nullReleases]
       IN  /\ groups' = IF last THEN groups (-) One(G)
                        ELSE Replace(groups, G, [G EXCEPT !.ws = ws])
           /\ objs' = r.os
           /\ nullReleases' = r.nr
           /\ lastOp' = [LastBase("destroy") EXCEPT !.path = G.path,
                  !.ptr = G.m.ptr, !.x = B2N(last), !.y = B2N(W.copy),
                  !.acc = B2N(last /\ G.m.own)]
    /\ UNCHANGED <<auxVars, crashed, logVars, bulk>>

\* ----------------------------------------------------------- operator==
\* Instance::operator== and Media::operator==: m_obj == another.m_obj, which
\* compares the two stored pointers.
ContentOf(m) == IF m.ptr = Null THEN 0 ELSE objs[m.ptr].content

OperatorEq_byContent(a, b) == ContentOf(a) = ContentOf(b)

OperatorEq(a, b) == a.ptr = b.ptr

Eq(Ga, Gb) ==
    /\ ~crashed
    /\ KindOf(Ga.path) = KindOf(Gb.path)
    /\ KindOf(Ga.path) \in {"instance", "media"}
    /\ Ga = Gb => groups[Ga] > 1 \/ BagCardinality(Ga.ws) > 1
    /\ lastOp' = [LastBase("eq") EXCEPT !.path = KindOf(Ga.path),
                      !.ptr = Ga.m.ptr, !.arg = Gb.m.ptr,
                      !.res = B2N(OperatorEq(Ga.m, Gb.m)),
                      !.x = ContentOf(Ga.m), !.y = ContentOf(Gb.m)]
    /\ UNCHANGED <<auxVars, groups, objs, nullReleases, crashed, logVars, bulk>>

\* --------------------------------------------------------- eventManager()
\* The event manager wrappers alive: one is destroyed with the last wrapper
\* whose m_eventManager refers to it.
LiveChildren ==
    UNION {{W.em : W \in DOMAIN G.ws} : G \in DOMAIN groups} \ {NoChild}

\* std::make_shared: a new object, distinct from every live one.
NewChild ==
    CHOOSE c \in 1..(MaxHandles + 1) :
        /\ c \notin LiveChildren
        /\ \A d \in 1..(c - 1) : d \in LiveChildren

\* The body before the return statement: the slot after it, and whether the
\* native accessor was called and a new child made (child is its identity).
Media_eventManager(em, child) ==
    IF em = NoChild
    THEN [slot |-> child, acc |-> TRUE]
    ELSE [slot |-> em, acc |-> FALSE]

MediaDiscoverer_eventManager(em, child) ==
    IF em # NoChild
    THEN [slot |-> child, acc |-> TRUE]
    ELSE [slot |-> em, acc |-> FALSE]

\* return *m_eventManager: dereferencing an unset slot is undefined; a build
\* with library assertions aborts, any other hands back a null reference.
DerefOutcomes(slot) ==
    IF slot = NoChild
    THEN {[ref |-> NullRef, abort |-> TRUE], [ref |-> NullRef, abort |-> FALSE]}
    ELSE {[ref |-> slot, abort |-> FALSE]}

EventManagerCall(G, W, r) ==
    /\ ~crashed
    /\ isValid(G.m)
    /\ \E d \in DerefOutcomes(r.slot) :
        LET W2 == [W EXCEPT !.em = r.slot,
                            !.first = IF @ = 0 THEN d.ref ELSE @]
        IN  /\ crashed' = d.abort
            /\ groups' = Replace(groups, G,
                   [G EXCEPT !.ws = Replace(@, W, W2)])
            /\ lastOp' = [LastBase("eventManager") EXCEPT !.path = G.path,
                   !.ptr = G.m.ptr, !.arg = W.first, !.res = d.ref,
                   !.x = W.em, !.y = r.slot, !.acc = B2N(r.acc)]
    /\ UNCHANGED <<auxVars, objs, nullReleases, logVars, bulk>>

MediaEventManager(G, W) ==
    /\ KindOf(G.path) = "media"
    /\ EventManagerCall(G, W, Media_eventManager(W.em, NewChild))

DiscovererEventManager(G, W) ==
    /\ KindOf(G.path) = "discoverer"
    /\ EventManagerCall(G, W, MediaDiscoverer_eventManager(W.em, NewChild))

\* ------------------------------- eventManager() called from several threads
\* Media::eventManager() statement by statement, on one valid Media that
\* several threads share.  The function takes no lock, so its statements
\* interleave: slot is m_eventManager, pc[t] the statement thread t is at,
\* mine[t] the child it made, got[t] the reference its first call returned,
\* alive the children not destroyed, made the children constructed, and torn
\* that an unsynchronised write of the slot met another thread's access and
\* the build made something else of it.  A thread at "call" is outside the
\* function; one at "store" or "return" is about to access the slot.
Racers == 1..MaxRacers

RaceInit ==
    [slot |-> NoChild, pc |-> [t \in Racers |-> "call"],
     mine |-> [t \in Racers |-> NoChild], got |-> [t \in Racers |-> 0],
     calls |-> [t \in Racers |-> 1],
     alive |-> {}, made |-> 0, torn |-> FALSE]

RaceFrame == UNCHANGED <<exitH, ctor, ownVars, logVars, bulk>>

\* if ( m_eventManager == NULL )
EmTest(t) ==
    /\ race.pc[t] = "call"
    /\ race' = [race EXCEPT
           !.pc[t] = IF race.slot = NoChild THEN "make" ELSE "return"]
    /\ RaceFrame

\* libvlc_media_event_manager(*this) and std::make_shared<MediaEventManager>
EmMake(t) ==
    /\ race.pc[t] = "make"
    /\ race' = [race EXCEPT !.pc[t] = "store", !.mine[t] = race.made + 1,
                            !.alive = @ \cup {race.made + 1},
                            !.made = @ + 1]
    /\ RaceFrame

\* m_eventManager = ...: the slot takes the new child and the child it held,
\* if any, loses its only owner and is destroyed.  The write is not
\* synchronised with the other threads' reads and writes of the slot.
EmStore(t) ==
    /\ race.pc[t] = "store"
    /\ \E torn \in IF \E u \in Racers \ {t} : race.pc[u] \in {"store", "return"}
                    THEN {race.torn, TRUE} ELSE {race.torn} :
        race' = [race EXCEPT !.pc[t] = "return", !.slot = race.mine[t],
                             !.alive = @ \ {race.slot},
                             !.torn = torn]
    /\ RaceFrame

\* return *m_eventManager
EmReturn(t) ==
    /\ race.pc[t] = "return"
    /\ race' = [race EXCEPT !.pc[t] = "done",
                            !.got[t] = IF @ = 0 THEN race.slot ELSE @]
    /\ RaceFrame

\* The thread calls eventManager() again.
EmAgain(t) ==
    /\ race.pc[t] = "done"
    /\ race.calls[t] < MaxCalls
    /\ race' = [race EXCEPT !.pc[t] = "call", !.calls[t] = @ + 1]
    /\ RaceFrame

\* ------------------------------------------------ the log callback
LibThreads == 1..MaxLibThreads
Callbacks == 1..MaxCb

\* The native library runs a log callback under the read side of a lock and
\* libvlc_log_unset / libvlc_log_set change the registration under its write
\* side: they go through once no invocation is in flight.
libvlc_log_drained(run) == \A t \in LibThreads : run[t] = 0

logUnset_noWait(run) == TRUE

\* When Instance::logUnset() comes back: when libvlc_log_unset does.
logUnset_returns(run) == libvlc_log_drained(run)

logSet_noWait(run) == TRUE

\* When Instance::logSet() comes back: when libvlc_log_set does.
logSet_returns(run) == libvlc_log_drained(run)

InFlight == {t \in LibThreads : running[t] # 0}

logUnsetCall ==
    /\ app.pc = "idle"
    /\ app' = [pc |-> "logUnset", cb |-> 0, inflight |-> InFlight # {}]
    /\ UNCHANGED <<auxVars, logCb, running, lastLog, ownVars, bulk>>

logUnsetReturn ==
    /\ app.pc = "logUnset"
    /\ logUnset_returns(running)
    /\ logCb' = 0
    /\ lastLog' = [op |-> "logUnset", inflight |-> app.inflight]
    /\ app' = [pc |-> "idle", cb |-> 0, inflight |-> FALSE]
    /\ UNCHANGED <<auxVars, running, ownVars, bulk>>

logSetCall(cb) ==
    /\ app.pc = "idle"
    /\ app' = [pc |-> "logSet", cb |-> cb, inflight |-> InFlight # {}]
    /\ UNCHANGED <<auxVars, logCb, running, lastLog, ownVars, bulk>>

logSetReturn ==
    /\ app.pc = "logSet"
    /\ logSet_returns(running)
    /\ logCb' = app.cb
    /\ lastLog' = [op |-> "logSet", inflight |-> app.inflight]
    /\ app' = [pc |-> "idle", cb |-> 0, inflight |-> FALSE]
    /\ UNCHANGED <<auxVars, running, ownVars, bulk>>

\* A library thread starts an invocation of the registered callback.
LogInvoke(t) ==
    /\ running[t] = 0
    /\ logCb # 0
    /\ running' = [running EXCEPT ![t] = logCb]
    /\ UNCHANGED <<auxVars, logCb, app, lastLog, ownVars, bulk>>

\* The invocation returns.
LogDone(t) ==
    /\ running[t] # 0
    /\ running' = [running EXCEPT ![t] = 0]
    /\ UNCHANGED <<auxVars, logCb, app, lastLog, ownVars, bulk>>

\* ------------------------------------------------ the exit handler
\* libvlc_set_exit_handler stores the handler and comes back: it does not
\* wait for an invocation of the previous handler.
libvlc_set_exit_handler_returns(run) == TRUE

\* When Instance::setExitHandler() comes back: when libvlc_set_exit_handler
\* does.
setExitHandler_returns(run) == libvlc_set_exit_handler_returns(run)

\* cb = 0 is the NULL that disables the exit handler.
setExitHandlerCall(cb) ==
    /\ app.pc = "idle"
    /\ app' = [pc |-> "setExitHandler", cb |-> cb,
               inflight |-> exitH.running # 0]
    /\ UNCHANGED <<exitH, race, ctor, logCb, running, lastLog, ownVars, bulk>>

setExitHandlerReturn ==
    /\ app.pc = "setExitHandler"
    /\ setExitHandler_returns(exitH.running)
    /\ exitH' = [exitH EXCEPT !.handler = app.cb, !.inflight = app.inflight]
    /\ app' = [pc |-> "idle", cb |-> 0, inflight |-> FALSE]
    /\ UNCHANGED <<race, ctor, logCb, running, lastLog, ownVars, bulk>>

\* The library raises the exit event: its thread enters the registered handler.
ExitInvoke ==
    /\ exitH.running = 0
    /\ exitH.handler # 0
    /\ exitH' = [exitH EXCEPT !.running = exitH.handler]
    /\ UNCHANGED <<race, ctor, logVars, ownVars, bulk>>

\* The handler returns.
ExitDone ==
    /\ exitH.running # 0
    /\ exitH' = [exitH EXCEPT !.running = 0]
    /\ UNCHANGED <<race, ctor, logVars, ownVars, bulk>>

\* ------------------------------------------------------- bulk queries
\* A native list is given by the names of its nodes in order: node p (1-based)
\* carries names[p] and links to node p + 1, the last one to null.  A native
\* array is given the same way, its count being its length.
Lists == UNION {[1..n -> 1..MaxElem] : n \in 0..MaxList}

ListHead(L) == IF Len(L) = 0 THEN Null ELSE 1
p_next(L, p) == IF p < Len(L) THEN p + 1 ELSE Null

\* res.emplace_back( p ): the wrapped description copies the node's fields.
Wrap(L, p) == [name |-> L[p]]

NoResult == [res |-> <<>>, ev |-> <<>>]
Did(r, what, arg) == [r EXCEPT !.ev = Append(@, <<what, arg>>)]

\* while ( p != NULL ) { res.emplace_back( p ); p = p->p_next; }
RECURSIVE WalkList(_, _, _)
WalkList(L, p, r) ==
    IF p = Null THEN r
    ELSE WalkList(L, p_next(L, p),
             Did(Did([r EXCEPT !.res = Append(@, Wrap(L, p))], "wrap", p),
                 "next", p))

\* for ( uint32_t i = 0; i < nbTracks; ++i ) res.emplace_back( tracks[i] );
RECURSIVE WalkArray(_, _, _, _)
WalkArray(T, i, nbTracks, r) ==
    IF ~(i < nbTracks) THEN r
    ELSE WalkArray(T, i + 1, nbTracks,
             Did([r EXCEPT !.res = Append(@, Wrap(T, i + 1))], "wrap", i + 1))

\* Instance::audioFilterList(): the list is held by a unique_ptr whose deleter
\* runs when the function leaves, and not at all for a null pointer.
audioFilterList(L) ==
    LET ptr == ListHead(L)
    IN  IF ptr = Null THEN NoResult
        ELSE Did(WalkList(L, ptr, NoResult),
                 "libvlc_module_description_list_release", ptr)

\* Instance::videoFilterList()
videoFilterList(L) ==
    LET ptr == ListHead(L)
    IN  IF ptr = Null THEN NoResult
        ELSE Did(WalkList(L, ptr, NoResult),
                 "libvlc_module_description_list_release", ptr)

\* Instance::audioOutputList()
audioOutputList(L) ==
    LET result == ListHead(L)
    IN  IF result = Null THEN NoResult
        ELSE Did(WalkList(L, result, NoResult),
                 "libvlc_audio_output_list_release", result)

audioOutputDeviceList_releaseFirst(L) ==
    LET devices == ListHead(L)
    IN  IF devices = Null THEN NoResult
        ELSE WalkList(L, devices,
                 Did(NoResult, "libvlc_audio_output_device_list_release",
                     devices))

\* Instance::audioOutputDeviceList()
audioOutputDeviceList(L) ==
    LET devices == ListHead(L)
    IN  IF devices = Null THEN NoResult
        ELSE Did(WalkList(L, devices, NoResult),
                 "libvlc_audio_output_device_list_release", devices)

tracks_releasesEmpty(T) ==
    Did(WalkArray(T, 0, Len(T), NoResult),
        "libvlc_media_tracks_release", Len(T))

\* Media::tracks(): libvlc_media_tracks_get hands back the array and its count.
tracks(T) ==
    LET nbTracks == Len(T)
    IN  IF nbTracks = 0 THEN NoResult
        ELSE Did(WalkArray(T, 0, nbTracks, NoResult),
                 "libvlc_media_tracks_release", nbTracks)

ContainerReleases ==
    {"libvlc_module_description_list_release",
     "libvlc_audio_output_list_release",
     "libvlc_audio_output_device_list_release",
     "libvlc_media_tracks_release"}

Asked(fn, L, r) == [fn |-> fn, input |-> L, res |-> r.res, ev |-> r.ev]

AudioFilterListCall ==
    \E L \in Lists :
        /\ bulk' = Asked("audioFilterList", L, audioFilterList(L))
        /\ UNCHANGED <<auxVars, ownVars, logVars>>

VideoFilterListCall ==
    \E L \in Lists :
        /\ bulk' = Asked("videoFilterList", L, videoFilterList(L))
        /\ UNCHANGED <<auxVars, ownVars, logVars>>

AudioOutputListCall ==
    \E L \in Lists :
        /\ bulk' = Asked("audioOutputList", L, audioOutputList(L))
        /\ UNCHANGED <<auxVars, ownVars, logVars>>

AudioOutputDeviceListCall ==
    \E L \in Lists :
        /\ bulk' = Asked("audioOutputDeviceList", L, audioOutputDeviceList(L))
        /\ UNCHANGED <<auxVars, ownVars, logVars>>

TracksCall ==
    \E T \in Lists :
        /\ bulk' = Asked("tracks", T, tracks(T))
        /\ UNCHANGED <<auxVars, ownVars, logVars>>

\* ------------------------------------------------------ specification
Init ==
    /\ groups = EmptyBag
    /\ objs = [p \in Ptrs |-> IF p = ItemMedia THEN Held(1)
                              ELSE IF p = ListMedia THEN Held(2) ELSE NoObj]
    /\ nullReleases = 0
    /\ crashed = FALSE
    /\ lastOp = LastBase("init")
    /\ logCb = 0
    /\ running = [t \in LibThreads |-> 0]
    /\ app = [pc |-> "idle", cb |-> 0, inflight |-> FALSE]
    /\ lastLog = [op |-> "none", inflight |-> FALSE]
    /\ bulk = [fn |-> "none", input |-> <<>>, res |-> <<>>, ev |-> <<>>]
    /\ exitH = [handler |-> 0, running |-> 0, inflight |-> FALSE]
    /\ race = RaceInit
    /\ ctor = CtorInit

\* Construction, copy and destruction of the three wrapper classes.
Next ==
    \/ InstanceNew
    \/ InstanceDefault
    \/ MediaDefault
    \/ MediaNew
    \/ MediaFd
    \/ MediaFromList
    \/ MediaFromPtr
    \/ MediaDiscovererNew
    \/ \E G \in DOMAIN groups : duplicate(G)
    \/ \E G \in DOMAIN groups : \E W \in DOMAIN G.ws : Copy(G, W)
    \/ \E G \in DOMAIN groups : \E W \in DOMAIN G.ws : Destroy(G, W)

Spec == Init /\ [][Next]_vars

\* The wrappers that cache an event manager.
NextCache ==
    \/ MediaFd
    \/ MediaDiscovererNew
    \/ \E G \in DOMAIN groups : \E W \in DOMAIN G.ws : Copy(G, W)
    \/ \E G \in DOMAIN groups : \E W \in DOMAIN G.ws : Destroy(G, W)
    \/ \E G \in DOMAIN groups : \E W \in DOMAIN G.ws : MediaEventManager(G, W)
    \/ \E G \in DOMAIN groups : \E W \in DOMAIN G.ws :
           DiscovererEventManager(G, W)

SpecCache == Init /\ [][NextCache]_vars

\* The wrappers that can be compared.
NextEq ==
    \/ InstanceNew
    \/ InstanceDefault
    \/ MediaNew
    \/ MediaFromPtr
    \/ \E G \in DOMAIN groups : duplicate(G)
    \/ \E G \in DOMAIN groups : \E W \in DOMAIN G.ws : Copy(G, W)
    \/ \E G \in DOMAIN groups : \E W \in DOMAIN G.ws : Destroy(G, W)
    \/ \E Ga, Gb \in DOMAIN groups : Eq(Ga, Gb)

SpecEq == Init /\ [][NextEq]_vars

\* The application thread and the library's threads around the log callback.
NextLog ==
    \/ logUnsetCall
    \/ logUnsetReturn
    \/ \E cb \in Callbacks : logSetCall(cb)
    \/ logSetReturn
    \/ \E t \in LibThreads : LogInvoke(t)
    \/ \E t \in LibThreads : LogDone(t)

SpecLog == Init /\ [][NextLog]_vars

\* The application thread installing and uninstalling the log callback and
\* the exit handler, and the library's threads invoking them.
NextInstall ==
    \/ logUnsetCall
    \/ logUnsetReturn
    \/ \E cb \in Callbacks : logSetCall(cb)
    \/ logSetReturn
    \/ \E t \in LibThreads : LogInvoke(t)
    \/ \E t \in LibThreads : LogDone(t)
    \/ \E cb \in Callbacks \cup {0} : setExitHandlerCall(cb)
    \/ setExitHandlerReturn
    \/ ExitInvoke
    \/ ExitDone

SpecInstall == Init /\ [][NextInstall]_vars

\* Threads calling eventManager() on one Media wrapper.
NextRace ==
    \/ \E t \in Racers : EmTest(t)
    \/ \E t \in Racers : EmMake(t)
    \/ \E t \in Racers : EmStore(t)
    \/ \E t \in Racers : EmReturn(t)
    \/ \E t \in Racers : EmAgain(t)

SpecRace == Init /\ [][NextRace]_vars

\* The Media construction paths, copies, destruction and the cached event
\* manager.
NextAdopt ==
    \/ MediaNew
    \/ MediaFd
    \/ MediaFromList
    \/ \E G \in DOMAIN groups : duplicate(G)
    \/ \E G \in DOMAIN groups : \E W \in DOMAIN G.ws : Copy(G, W)
    \/ \E G \in DOMAIN groups : \E W \in DOMAIN G.ws : Destroy(G, W)
    \/ \E G \in DOMAIN groups : \E W \in DOMAIN G.ws : MediaEventManager(G, W)

SpecAdopt == Init /\ [][NextAdopt]_vars

\* Media(ptr, true) part by part, among copies and destructions.
NextCtor ==
    \/ \E ptr \in {Null, ItemMedia} : MediaPtrInit(ptr, TRUE)
    \/ MediaPtrBody
    \/ MediaFromList
    \/ \E G \in DOMAIN groups : \E W \in DOMAIN G.ws : Copy(G, W)
    \/ \E G \in DOMAIN groups : \E W \in DOMAIN G.ws : Destroy(G, W)

SpecCtor == Init /\ [][NextCtor]_vars

\* The bulk queries, each on every native container within the bounds.
NextBulk ==
    \/ AudioFilterListCall
    \/ VideoFilterListCall
    \/ AudioOutputListCall
    \/ AudioOutputDeviceListCall
    \/ TracksCall

SpecBulk == Init /\ [][NextBulk]_vars

\* ================================================================ claims
Groups == DOMAIN groups

\* C1: a handle built around a non-null native pointer has the release
\* function of its class bound to it; while a member of its ownership group is
\* alive the native object keeps the group's reference, the release function
\* is called by the destruction of the last member and by no other, so that
\* every object's count is what its container holds plus one per live group,
\* and no release ever reaches a freed object.
C1_ReleasedOnceByLastMember ==
    /\ \A p \in Ptrs :
        /\ ~objs[p].over
        /\ objs[p].refs = objs[p].held + LiveGroupsOn(p)
    /\ \A G \in Groups :
        isValid(G.m) =>
            /\ G.m.rel = ReleaseFnOf(KindOf(G.path))
            /\ objs[G.m.ptr].kind = KindOf(G.path)
            /\ objs[G.m.ptr].refs >= 1
    /\ (lastOp.op = "destroy" /\ lastOp.ptr # Null) => lastOp.acc = lastOp.x

\* The last member of a group, a copy, was destroyed after the original, and
\* that destruction released and freed the native object.
C1_Witness ==
    /\ lastOp.op = "destroy" /\ lastOp.ptr # Null
    /\ lastOp.x = 1 /\ lastOp.y = 1 /\ lastOp.acc = 1
    /\ objs[lastOp.ptr] = NoObj

\* C2: a first eventManager() call, on a wrapper whose slot is unset, calls
\* the native accessor once, leaves the slot set, returns the child the slot
\* holds, and does not dereference an unset slot.
C2_FirstAccessCaches ==
    (lastOp.op = "eventManager" /\ lastOp.x = NoChild) =>
        /\ lastOp.acc = 1
        /\ lastOp.y # NoChild
        /\ lastOp.res = lastOp.y
        /\ ~crashed

\* C3: a later eventManager() call on a wrapper returns the child object the
\* first call returned, calls the native accessor no more, and leaves a set
\* slot as it is.
C3_LaterAccessSameChild ==
    (lastOp.op = "eventManager" /\ lastOp.arg # 0) =>
        /\ lastOp.res = lastOp.arg
        /\ lastOp.res \in LiveChildren
        /\ lastOp.acc = 0
        /\ lastOp.y = lastOp.x
        /\ ~crashed

\* C4: Media(instance, mrl, type) throws exactly when the selected native
\* create function returned null or type selects none (and then no native
\* object was created); a throwing construction leaves no wrapper behind and
\* makes no release call.
C4_MediaCtorThrowsOnNull ==
    [][lastOp'.op = "MediaNew" =>
        /\ lastOp'.thrown = (lastOp'.ptr = Null \/ lastOp'.arg \notin FromTypes)
        /\ lastOp'.thrown =>
            /\ groups' = groups
            /\ objs' = objs
            /\ nullReleases' = nullReleases
        /\ lastOp'.arg \notin FromTypes => lastOp'.ptr = Null /\ objs' = objs
        /\ ~lastOp'.thrown => NHandles' = NHandles + 1]_vars

\* A native create function was selected, returned null, and the constructor
\* threw.
C4_Witness ==
    /\ lastOp.op = "MediaNew" /\ lastOp.thrown
    /\ lastOp.arg \in FromTypes /\ lastOp.ptr = Null

TolerantPaths == {"Instance", "MediaFd", "MediaList", "Discoverer"}

\* C5: Instance(argc, argv), Media(instance, fd), Media(MediaList&) and
\* MediaDiscoverer(inst, name) never throw, and leave a wrapper that holds the
\* pointer the native function returned: isValid() is false after a null
\* return and true after any other.
C5_TolerantCtorsNeverThrow ==
    lastOp.op \in TolerantPaths =>
        /\ ~lastOp.thrown
        /\ lastOp.valid = (lastOp.ptr # Null)
        /\ \E G \in Groups :
            /\ KindOf(G.path) = KindOf(lastOp.op)
            /\ G.m.ptr = lastOp.ptr
            /\ isValid(G.m) = lastOp.valid

\* MediaDiscoverer(inst, name) after a null return: a wrapper, not valid.
C5_Witness ==
    /\ lastOp.op = "Discoverer" /\ lastOp.ptr = Null
    /\ ~lastOp.thrown /\ ~lastOp.valid
    /\ \E G \in Groups : G.path = "Discoverer" /\ ~isValid(G.m)

\* C6: no release function is ever called with a null pointer, and destroying
\* a handle that holds no pointer calls no release function, whether it is
\* the only one, a copy, or the last of its copies.
C6_EmptyNeverReleases ==
    /\ nullReleases = 0
    /\ (lastOp.op = "destroy" /\ lastOp.ptr = Null) => lastOp.acc = 0

\* The last copy of a Media made from a null libvlc_media_new_fd result was
\* destroyed.
C6_Witness ==
    /\ lastOp.op = "destroy" /\ lastOp.ptr = Null /\ lastOp.path = "MediaFd"
    /\ lastOp.x = 1 /\ lastOp.y = 1 /\ lastOp.acc = 0

\* C7: Media(ptr, true) calls libvlc_media_retain once on a non-null ptr and
\* not at all on null; the item's count is always the list's reference plus
\* one per live ownership group around it (the retains not yet matched by a
\* release are those of the live groups, none when all are destroyed), never
\* less than the list's reference, and no release reaches it once freed.
C7_RetainMatchesRelease ==
    /\ lastOp.op = "MediaPtrInc" => lastOp.acc = B2N(lastOp.ptr # Null)
    /\ objs[ItemMedia].refs = objs[ItemMedia].held + LiveGroupsOn(ItemMedia)
    /\ objs[ItemMedia].refs >= objs[ItemMedia].held
    /\ objs[ItemMedia].held = 1
    /\ ~objs[ItemMedia].over

\* The item was wrapped twice; one wrapper was destroyed and released its
\* reference while the other is alive.
C7_Witness ==
    /\ lastOp.op = "destroy" /\ lastOp.ptr = ItemMedia /\ lastOp.acc = 1
    /\ LiveGroupsOn(ItemMedia) = 1
    /\ objs[ItemMedia].refs = 2

\* C8: operator== on two Instance or two Media wrappers is true exactly when
\* both hold the same native pointer.
C8_EqualityIsPointerIdentity ==
    lastOp.op = "eq" => ((lastOp.res = 1) <=> (lastOp.ptr = lastOp.arg))

\* Two Media around different native objects with the same contents compared
\* unequal.
C8_Witness ==
    /\ lastOp.op = "eq" /\ lastOp.path = "media" /\ lastOp.res = 0
    /\ lastOp.ptr # Null /\ lastOp.arg # Null /\ lastOp.ptr # lastOp.arg
    /\ lastOp.x = lastOp.y

\* C9: once logUnset() has returned, and until a later logSet() returns, no
\* library thread is inside the log callback: the invocations in flight at the
\* call have completed and none has started since.
C9_UnsetDrainsCallbacks ==
    lastLog.op = "logUnset" => \A t \in LibThreads : running[t] = 0

\* logUnset() was called while an invocation was in flight, and has returned.
C9_Witness ==
    /\ lastLog.op = "logUnset" /\ lastLog.inflight /\ app.pc = "idle"

\* C10: a bulk query whose native accessor returned a null list, or a count of
\* zero, returns an empty sequence and calls no container release function.
C10_EmptyContainerNoRelease ==
    (bulk.fn # "none" /\ Len(bulk.input) = 0) =>
        /\ bulk.res = <<>>
        /\ \A i \in 1..Len(bulk.ev) : bulk.ev[i][1] \notin ContainerReleases

\* Media::tracks() on a count of zero.
C10_Witness ==
    /\ bulk.fn = "tracks" /\ Len(bulk.input) = 0 /\ bulk.res = <<>>

\* The container release function each bulk query is paired with.
MatchingRelease(fn) ==
    CASE fn \in {"audioFilterList", "videoFilterList"} ->
             "libvlc_module_description_list_release"
      [] fn = "audioOutputList" -> "libvlc_audio_output_list_release"
      [] fn = "audioOutputDeviceList" ->
             "libvlc_audio_output_device_list_release"
      [] fn = "tracks" -> "libvlc_media_tracks_release"
      [] OTHER -> "none"

IsWrap(e) == e[1] = "wrap"
IsRelease(e) == e[1] \in ContainerReleases

\* The last bulk query wrapped each element once in native order, returned
\* them in that order, and released the container once, with the matching
\* function, after every read of the container.
MarshalledInOrder ==
    LET n == Len(bulk.input)
        wraps == SelectSeq(bulk.ev, IsWrap)
        rels == SelectSeq(bulk.ev, IsRelease)
    IN  /\ Len(bulk.res) = n
        /\ \A i \in 1..n : bulk.res[i] = [name |-> bulk.input[i]]
        /\ Len(wraps) = n
        /\ \A i \in 1..n : wraps[i][2] = i
        /\ Len(rels) = 1
        /\ rels[1][1] = MatchingRelease(bulk.fn)
        /\ bulk.ev[Len(bulk.ev)] = rels[1]

\* C11 as stated: whenever the accessor hands back a container, a non-null
\* list or a counted array of any count (zero included), the query wraps each
\* element once in order and releases the container exactly once, last.
C11_AsStated ==
    (bulk.fn # "none" /\ (bulk.fn = "tracks" \/ Len(bulk.input) >= 1)) =>
        MarshalledInOrder

\* C11, amended: whenever the accessor hands back a non-null list or an array
\* of at least one element, the query wraps each element exactly once in
\* native order, returns them in that order, and calls the matching container
\* release function exactly once, after the last element was wrapped and the
\* last link read.
C11_WalkThenReleaseOnce ==
    (bulk.fn # "none" /\ Len(bulk.input) >= 1) => MarshalledInOrder

\* Instance::audioOutputDeviceList() on a list of MaxList devices.
C11_Witness ==
    /\ bulk.fn = "audioOutputDeviceList" /\ Len(bulk.input) = MaxList
    /\ Len(bulk.res) = MaxList
    /\ bulk.ev[Len(bulk.ev)][1] = "libvlc_audio_output_device_list_release"

\* C12 as stated: neither logSet() nor setExitHandler() waits for another
\* thread; once called, each can return whatever invocation is in flight.
C12_AsStated ==
    /\ app.pc = "logSet" => ENABLED logSetReturn
    /\ app.pc = "setExitHandler" => ENABLED setExitHandlerReturn

\* C12, amended: logSet() waits as logUnset() does: it cannot return while an
\* invocation of the log callback is in flight, and once it has returned every
\* invocation running is one of the callback it registered, none of the
\* previous one; setExitHandler() can always return, whatever invocation of
\* the exit handler is in flight.
C12_LogSetWaitsExitHandlerDoesNot ==
    /\ (app.pc = "logSet" /\ InFlight # {}) => ~ENABLED logSetReturn
    /\ lastLog.op = "logSet" => \A t \in LibThreads : running[t] \in {0, logCb}
    /\ app.pc = "setExitHandler" => ENABLED setExitHandlerReturn

\* logSet() was called while an invocation was in flight and has returned;
\* setExitHandler() was called while the exit handler was running and has
\* returned, and that invocation of the previous handler is still running.
C12_Witness ==
    /\ lastLog.op = "logSet" /\ lastLog.inflight /\ app.pc = "idle"
    /\ exitH.inflight /\ exitH.running # 0 /\ exitH.running # exitH.handler

\* C13: when several threads call eventManager() on one wrapper whose slot is
\* unset, at most one child is ever constructed, every call that has returned
\* returned the child the slot holds, no returned child has been destroyed,
\* and no unsynchronised access to the slot went wrong.
C13_FirstAccessAtomic ==
    /\ race.made <= 1
    /\ ~race.torn
    /\ \A t \in Racers :
        race.got[t] # 0 => race.got[t] = race.slot /\ race.got[t] \in race.alive

AdoptPaths == {"MediaNew", "MediaFd", "MediaList", "MediaDup"}

\* C14: Media(instance, mrl, type), Media(instance, fd), Media(MediaList&) and
\* duplicate() (which is Media(ptr, false)) never call libvlc_media_retain; a copy and an
\* eventManager() call change no native object and call no release; and every
\* native media object's count is always what its container holds plus one per
\* live ownership group around it.
C14_AdoptWithoutIncrement ==
    /\ [](\A p \in Ptrs :
            objs[p].kind = "media" =>
                objs[p].refs - objs[p].held = LiveGroupsOn(p))
    /\ [][/\ lastOp'.op \in AdoptPaths => lastOp'.acc = 0
          /\ lastOp'.op \in {"copy", "eventManager"} =>
                objs' = objs /\ nullReleases' = nullReleases]_vars

\* duplicate() adopted a fresh native media: one reference, one group, while
\* the media it was duplicated from has a wrapper with its event manager set.
C14_Witness ==
    /\ lastOp.op = "MediaDup" /\ lastOp.ptr # Null /\ lastOp.acc = 0
    /\ objs[lastOp.ptr].refs = 1 /\ LiveGroupsOn(lastOp.ptr) = 1
    /\ \E G \in Groups :
        G.m.ptr = lastOp.arg /\ \E W \in DOMAIN G.ws : W.em # NoChild

\* C15: in Media(ptr, true) the retain call comes before the pointer is
\* stored: there is no state in which the handle under construction owns ptr
\* while the native count does not yet include its reference.
C15_RetainBeforeStore ==
    (ctor.pc = "body" /\ ctor.inc /\ ctor.m.own /\ isValid(ctor.m)) =>
        objs[ctor.m.ptr].refs >=
            objs[ctor.m.ptr].held + LiveGroupsOn(ctor.m.ptr) + 1

====
